---- MODULE Spec2Model ----
(***************************************************************************)
(* Resumable row-processing engine of the two automation scripts           *)
(* (src/main.py: user creation, src/main1.py: contact e-mail update).      *)
(*                                                                         *)
(* The process is one thread of control; its position is pc.  The          *)
(* environment is the operator (acknowledges or aborts pauses, edits the   *)
(* working table while the process is blocked), the browser (every UI step *)
(* succeeds or raises), the file system (a table load or save succeeds or  *)
(* raises) and the operating system (the process may be killed anywhere).  *)
(* Text cells are sequences of one-character strings.                      *)
(***************************************************************************)
EXTENDS Integers, Sequences, FiniteSets, TLC

VARIABLES
    variant,        \* "main" (src/main.py) or "main1" (src/main1.py)
    testing,        \* args.testing
    creator_filter, \* args.creator (main.py only); <<>> is "no filter"
    source,         \* the source file: exists, has the required columns, rows
    working_exists, \* the working copy exists on disk
    hasRowID,       \* the working table has a RowID column
    table,          \* the working table on disk: sequence of row records
    df_all,         \* the table in the process's memory (as last loaded or saved)
    pc,             \* position of the process
    run,            \* number of process invocations so far
    session,        \* UI Session: "none", "open", "closed"
    row_ids,        \* list resolved at start-up
    idx,            \* position of rid in row_ids (for rid in row_ids)
    cur,            \* fields of the row as read by the current iteration
    role_index,     \* main.py: role_index of the current iteration
    newStatus,      \* status the next table write will store
    excKind,        \* type(e).__name__ of the exception being handled
    clock,          \* datetime.now(), advanced by every reading
    faults,         \* environment faults injected so far (bounded)
    edits,          \* operator edits so far (bounded)
    \* ---- observation (history) variables, never read by the process ----
    startDone,      \* rows Done when the current run started: RowID -> <<Status, DoneAt>>
    uiRows,         \* RowIDs with a UI interaction in the current run
    firstUi,        \* RowID of the first UI interaction of the current run
    submits,        \* RowID -> number of confirmed submissions, all runs
    uiFails,        \* current row, current run: failed UI steps of the five kinds
    logEv,          \* current row, current run: error/warning events the UI phase logged
    doneWrites,     \* current row, current run: writes of DoneAt
    surface,        \* input surface as the current attempt finds / leaves it
    log_runs,       \* Run Log: runs whose "New run started" event the file holds
    log_tail,       \* Run Log: "flushed_pause", "flushed", "pending", "closed"
    otherFail,      \* current row, current run: any other failure or a validation failure
    aborted,        \* an abort signal was raised at a pause of the current run
    exitCause,      \* why the current run left (or never entered) the row loop
    loopEntered,    \* the current run entered the per-row loop
    killedAfter     \* RowID persisted Done just before the previous run was killed

vars == <<variant, testing, creator_filter, source, working_exists, hasRowID, table, df_all, pc, run, session,
          row_ids, idx, cur, role_index, newStatus, excKind, clock, faults,
          edits, startDone, uiRows, firstUi, submits, uiFails, logEv,
          doneWrites, surface, log_runs, log_tail, otherFail, aborted, exitCause,
          loopEntered, killedAfter>>

-----------------------------------------------------------------------------
(* Bounds of the model                                                      *)
MaxRows == 2        \* rows of the source table
MaxRuns == 2        \* process invocations
MaxFaults == 1      \* failures / aborts / kills the environment injects
MaxEdits == 1       \* operator edits of the table
FilterRows == 3     \* rows of the tables the row-id resolution is applied to
MaxStrLen == 3      \* length of the identity strings the validators are applied to

-----------------------------------------------------------------------------
(* Text                                                                     *)
NoId == -1

Whitespace == {" ", "\t"}
Letters == {"a", "b", "c", "e", "g", "i", "k", "n", "s", "t", "u", "x", "A", "T"}
Digits == {"1"}

\* str.lower(), character by character
LowerChar(ch) ==
    CASE ch = "A" -> "a"
      [] ch = "T" -> "t"
      [] OTHER -> ch

Lower(s) == [i \in 1..Len(s) |-> LowerChar(s[i])]

RECURSIVE LStrip(_)
LStrip(s) ==
    IF s # <<>> /\ Head(s) \in Whitespace THEN LStrip(Tail(s)) ELSE s

RECURSIVE RStrip(_)
RStrip(s) ==
    IF s # <<>> /\ s[Len(s)] \in Whitespace
    THEN RStrip(SubSeq(s, 1, Len(s) - 1))
    ELSE s

\* str.strip()
Strip(s) == RStrip(LStrip(s))

AllIn(s, S) == \A i \in 1..Len(s) : s[i] \in S

-----------------------------------------------------------------------------
(* Validation Engine                                                        *)
INVALID_USER_CHARS == {" ", ":", ";", "/", "'", "\"", "\\", "|", ",", "<", ">", "?", "*"}

EmailLocalChars == Letters \cup Digits \cup {".", "_", "%", "+", "-"}
EmailDomainChars == Letters \cup Digits \cup {".", "-"}

\* variant of the pattern that lost its "@": ^[a-zA-Z0-9._%+-]+[a-zA-Z0-9.-]+\.[a-zA-Z]{2,}$
EmailRegexMatchNoAt(s) ==
    \E a \in 1..Len(s) : \E d \in 1..Len(s) :
        /\ AllIn(SubSeq(s, 1, a), EmailLocalChars)
        /\ s[d] = "."
        /\ d > a + 1
        /\ AllIn(SubSeq(s, a + 1, d - 1), EmailDomainChars)
        /\ Len(s) - d >= 2
        /\ AllIn(SubSeq(s, d + 1, Len(s)), Letters)

\* EMAIL_REGEX.match: ^[a-zA-Z0-9._%+-]+@[a-zA-Z0-9.-]+\.[a-zA-Z]{2,}$
EmailRegexMatch(s) ==
    \E a \in 1..Len(s) : \E d \in 1..Len(s) :
        /\ s[a] = "@"
        /\ a > 1
        /\ AllIn(SubSeq(s, 1, a - 1), EmailLocalChars)
        /\ s[d] = "."
        /\ d > a + 1
        /\ AllIn(SubSeq(s, a + 1, d - 1), EmailDomainChars)
        /\ Len(s) - d >= 2
        /\ AllIn(SubSeq(s, d + 1, Len(s)), Letters)

validate_email(email) == EmailRegexMatch(Strip(email))

validate_username(username) ==
    LET u == Strip(username)
    IN  IF u = <<>> THEN FALSE
        ELSE ~ \E i \in 1..Len(u) : u[i] \in INVALID_USER_CHARS

\* main1.py's validate_pcc has the same body over INVALID_PCC_CHARS
INVALID_PCC_CHARS == INVALID_USER_CHARS

\* variant without the emptiness test
validate_pccAcceptsEmpty(pcc) ==
    LET p == Strip(pcc)
    IN  ~ \E i \in 1..Len(p) : p[i] \in INVALID_PCC_CHARS

validate_pcc(pcc) ==
    LET p == Strip(pcc)
    IN  IF p = <<>> THEN FALSE
        ELSE ~ \E i \in 1..Len(p) : p[i] \in INVALID_PCC_CHARS

\* Role helpers: called by main.py, defined nowhere under src/
RoleSubAgent == <<"s","u","b"," ","a","g","e","n","t">>
RoleAgent == <<"a","g","e","n","t">>
RoleTicketing == <<"t","i","c","k","e","t","i","n","g"," ","a","g","e","n","t">>
RoleTicket == <<"t","i","c","k","e","t"," ","a","g","e","n","t">>

ROLE_ORDER == <<RoleSubAgent, RoleAgent, RoleTicketing>>

normalize_role(text) ==
    LET t == Lower(Strip(text))
    IN  IF t = RoleTicket THEN RoleTicketing ELSE t

role_to_index(canonical) ==
    IF \E i \in 1..Len(ROLE_ORDER) : ROLE_ORDER[i] = canonical
    THEN CHOOSE i \in 1..Len(ROLE_ORDER) : ROLE_ORDER[i] = canonical
    ELSE 0

-----------------------------------------------------------------------------
(* Working table                                                            *)
St(text) == <<text, <<>>>>

\* str(status).strip().lower() of the spellings that occur
StatusKey(text) ==
    CASE text = "Done" -> "done"
      [] text = " DONE" -> "done"
      [] OTHER -> text

\* variant that compares the lower-cased text with "Done"
IsDoneCaseSlip(st) == st[2] = <<>> /\ StatusKey(st[1]) = "Done"

\* variant that takes every recorded status for final
IsDoneAnyStatus(st) == st # St("")

\* main.py 279-280: status == "done"
IsDone(st) == st[2] = <<>> /\ StatusKey(st[1]) = "done"

FGood ==
    [Creator |-> <<"A">>, User |-> <<"a","b">>, Name |-> <<"a">>,
     Last |-> <<"b">>, Email |-> <<"a","@","b",".","a","a">>,
     Role |-> <<"A","g","e","n","t">>]
FGoodB ==
    [FGood EXCEPT !.Creator = <<"b">>, !.User = <<" ","a","1">>,
                  !.Role = <<"T","i","c","k","e","t"," ","A","g","e","n","t">>]
FNoAt == [FGood EXCEPT !.Email = <<"a","b",".","a","a">>]
FBadUserNoAt == [FNoAt EXCEPT !.User = <<"a"," ","b">>]
FBadRole == [FGood EXCEPT !.Role = <<"x">>]
FMissing == [FGood EXCEPT !.Name = <<" ">>]
FBadRoleNoAt == [FBadRole EXCEPT !.Email = <<"a","b",".","a","a">>]

SampleFields == {FGood, FGoodB, FNoAt, FBadUserNoAt, FBadRole, FMissing, FBadRoleNoAt}

InitStatuses == {St(""), St(" DONE")}

MkRow(f, id, st, at) ==
    [RowID |-> id, Creator |-> f.Creator, User |-> f.User, Name |-> f.Name,
     Last |-> f.Last, Email |-> f.Email, Role |-> f.Role,
     Status |-> st, DoneAt |-> at]

FieldsOf(r) ==
    [Creator |-> r.Creator, User |-> r.User, Name |-> r.Name,
     Last |-> r.Last, Email |-> r.Email, Role |-> r.Role]

\* df_all[df_all["RowID"] == rid]: positions of the matching rows (an empty
\* RowID cell is read as NaN, which is equal to nothing)
RowPositions(t, id) == {i \in 1..Len(t) : t[i].RowID = id /\ id # NoId}

HasRow(t, id) == RowPositions(t, id) # {}

\* row_df.iloc[0]
RowOf(t, id) == t[CHOOSE i \in RowPositions(t, id) : \A j \in RowPositions(t, id) : i <= j]

\* variant that lost the row mask: df_all["Status"] = st
SetStatusNoMask(t, id, st) ==
    [i \in 1..Len(t) |-> [t[i] EXCEPT !.Status = st]]

\* df_all.loc[df_all["RowID"] == rid, "Status"] = st
SetStatus(t, id, st) ==
    [i \in 1..Len(t) |-> IF t[i].RowID = id THEN [t[i] EXCEPT !.Status = st] ELSE t[i]]

\* variant that stores the timestamp but not the status
SetDoneNoStatus(t, id, now) ==
    [i \in 1..Len(t) |->
        IF t[i].RowID = id THEN [t[i] EXCEPT !.DoneAt = now] ELSE t[i]]

\* variant that lost the row mask of both assignments
SetDoneAllRows(t, id, now) ==
    [i \in 1..Len(t) |-> [t[i] EXCEPT !.Status = St("Done"), !.DoneAt = now]]

\* main.py 383-384: Status = "Done", DoneAt = datetime.now().isoformat()
SetDone(t, id, now) ==
    [i \in 1..Len(t) |->
        IF t[i].RowID = id
        THEN [t[i] EXCEPT !.Status = St("Done"), !.DoneAt = now]
        ELSE t[i]]

\* main.py 222-223: df_all.insert(0, "RowID", range(0, len(df_all)))
AssignRowIDs(t) == [i \in 1..Len(t) |-> [t[i] EXCEPT !.RowID = i - 1]]

\* variant that compares without lower-casing
\* variant that numbers the rows at every start-up
EnsureRowIDsAlways(t, has) == AssignRowIDs(t)

\* main.py 222-225: if "RowID" not in df_all.columns: insert it
EnsureRowIDs(t, has) == IF has THEN t ELSE AssignRowIDs(t)

\* variant that compares without lower-casing
RECURSIVE SelectSeq2CaseSensitive(_, _)
SelectSeq2CaseSensitive(t, f) ==
    IF t = <<>> THEN <<>>
    ELSE IF Strip(Head(t).Creator) = f
         THEN <<Head(t).RowID>> \o SelectSeq2CaseSensitive(Tail(t), f)
         ELSE SelectSeq2CaseSensitive(Tail(t), f)

\* main.py 235-236: the RowIDs under the mask, in table order
RECURSIVE SelectSeq2(_, _)
SelectSeq2(t, f) ==
    IF t = <<>> THEN <<>>
    ELSE IF Lower(Strip(Head(t).Creator)) = Lower(f)
         THEN <<Head(t).RowID>> \o SelectSeq2(Tail(t), f)
         ELSE SelectSeq2(Tail(t), f)

\* main.py 234-238
ResolveRowIds(t, f, v) ==
    IF v = "main" /\ f # <<>>
    THEN SelectSeq2(t, f)
    ELSE [i \in 1..Len(t) |-> t[i].RowID]

\* variant that never takes the early return
NothingToDoNever(ids) == FALSE

\* main.py 240: if not row_ids
NothingToDo(ids) == ids = <<>>

DoneSnapshot(t) ==
    [id \in {t[i].RowID : i \in {j \in 1..Len(t) : IsDone(t[j].Status)}} |->
        <<RowOf(t, id).Status, RowOf(t, id).DoneAt>>]

-----------------------------------------------------------------------------
(* Initial state: a source table and no working copy yet, or a working     *)
(* copy left by earlier runs; no process running                            *)
NoFields == [Creator |-> <<>>, User |-> <<>>, Name |-> <<>>, Last |-> <<>>,
             Email |-> <<>>, Role |-> <<>>]

\* a source table: rows of well-formed data, at most one row of another kind
SourceFields(n) ==
    {[i \in 1..n |-> FGood]} \cup
    {[i \in 1..n |-> IF i = k THEN f ELSE FGood] : k \in 1..n, f \in SampleFields}

FreshTables ==
    UNION {{[i \in 1..n |-> MkRow(fs[i], NoId, St(""), 0)] : fs \in SourceFields(n)} :
           n \in 0..MaxRows}

\* a working copy of earlier runs: RowIDs assigned, any mix of statuses
UsedTables ==
    UNION {{[i \in 1..n |-> MkRow(FGood, i - 1, ss[i], IF IsDone(ss[i]) THEN 1 ELSE 0)] :
                ss \in [1..n -> InitStatuses]} :
           n \in 1..MaxRows}

\* the source a working copy was made from: the same data, no helper columns
SourceOf(t) == [i \in 1..Len(t) |-> MkRow(FieldsOf(t[i]), NoId, St(""), 0)]

Init ==
    /\ variant \in {"main", "main1"}
    /\ testing \in BOOLEAN
    /\ creator_filter \in {<<>>, <<"a">>}
    /\ (variant = "main1" => creator_filter = <<>>)
    /\ working_exists \in BOOLEAN
    /\ hasRowID = working_exists
    /\ \E rows \in (IF working_exists THEN UsedTables ELSE FreshTables),
          ex \in BOOLEAN, cols \in BOOLEAN :
          /\ table = IF working_exists THEN rows ELSE <<>>
          /\ log_runs = IF working_exists THEN 1 ELSE 0
          /\ source = [exists |-> ex, cols |-> cols, rows |-> SourceOf(rows)]
          /\ (variant = "main" => cols)
          /\ (~ ex => cols)
          /\ (creator_filter # <<>> =>
                \E i \in 1..Len(rows) : rows[i].Creator # FGood.Creator)
    /\ pc = "idle"
    /\ run = 0
    /\ session = "none"
    /\ row_ids = <<>>
    /\ idx = 0
    /\ cur = NoFields
    /\ role_index = 0
    /\ newStatus = St("")
    /\ excKind = ""
    /\ clock = 2
    /\ faults = 0
    /\ edits = 0
    /\ startDone = <<>>
    /\ uiRows = {}
    /\ firstUi = NoId
    /\ submits = [id \in 0..(MaxRows - 1) |-> 0]
    /\ uiFails = 0
    /\ logEv = 0
    /\ doneWrites = 0
    /\ surface = "unknown"
    /\ df_all = <<>>
    /\ log_tail = "closed"
    /\ otherFail = FALSE
    /\ aborted = FALSE
    /\ exitCause = "none"
    /\ loopEntered = FALSE
    /\ killedAfter = NoId

-----------------------------------------------------------------------------
(* Helpers of the per-row loop                                              *)
cfgVars == <<variant, testing, creator_filter, source>>
rowObs == <<uiFails, logEv, doneWrites, otherFail>>

rid == row_ids[idx]

Valid == St("OK")

\* main.py 284-288, main1.py 310-313: str(row.get(...)).strip()
ReadFields(r) ==
    [Creator |-> r.Creator, User |-> Strip(r.User), Name |-> Strip(r.Name),
     Last |-> Strip(r.Last), Email |-> Strip(r.Email), Role |-> Strip(r.Role)]

\* variant that counts the role options from 0
RoleIndexOfZeroBased(f) ==
    LET canonical == normalize_role(f.Role)
    IN  IF \E i \in 1..Len(ROLE_ORDER) : ROLE_ORDER[i] = canonical
        THEN role_to_index(canonical) - 1
        ELSE 0

\* main.py 316-317: normalized_role, role_index of the fields read
RoleIndexOf(f) == role_to_index(normalize_role(f.Role))

\* variant without the role check of main.py 318
ValidateMainNoRoleCheck(f) ==
    IF ~ validate_username(f.User) THEN St("Pending - invalid username")
    ELSE IF ~ validate_email(f.Email) THEN St("Pending - invalid email")
    ELSE IF f.User = <<>> \/ f.Name = <<>> \/ f.Last = <<>> \/ f.Email = <<>>
         THEN St("Pending - missing fields")
    ELSE Valid

\* main.py 291-324: the first failing check decides the status
ValidateMain(f) ==
    IF ~ validate_username(f.User) THEN St("Pending - invalid username")
    ELSE IF ~ validate_email(f.Email) THEN St("Pending - invalid email")
    ELSE IF f.User = <<>> \/ f.Name = <<>> \/ f.Last = <<>> \/ f.Email = <<>>
         THEN St("Pending - missing fields")
    ELSE IF RoleIndexOf(f) = 0
         THEN <<"Pending - unknown role: ", f.Role>>
    ELSE Valid

\* main1.py 316-338
ValidateMain1(f) ==
    IF ~ validate_pcc(f.User) THEN St("Pending - invalid PCC")
    ELSE IF ~ validate_email(f.Email) THEN St("Pending - invalid email")
    ELSE IF f.User = <<>> \/ f.Email = <<>> THEN St("Pending - missing fields")
    ELSE Valid

Validate(v, f) == IF v = "main" THEN ValidateMain(f) ELSE ValidateMain1(f)

\* variant of main.py that clicks Save right after the fields are filled
NextUiSkipSelect(v, p) ==
    IF v = "main"
    THEN CASE p = "ui_open" -> "ui_fill"
           [] p = "ui_fill" -> "ui_save"
           [] p = "ui_select" -> "ui_save"
           [] p = "ui_save" -> "ui_wait"
    ELSE CASE p = "ui_nav" -> "ui_edit"
           [] p = "ui_edit" -> "ui_modal"
           [] p = "ui_modal" -> "ui_fill"
           [] p = "ui_fill" -> "ui_save"
           [] p = "ui_save" -> "ui_wait"

\* the step that follows a successful UI step
NextUi(v, p) ==
    IF v = "main"
    THEN CASE p = "ui_open" -> "ui_fill"
           [] p = "ui_fill" -> "ui_select"
           [] p = "ui_select" -> "ui_save"
           [] p = "ui_save" -> "ui_wait"
    ELSE CASE p = "ui_nav" -> "ui_edit"
           [] p = "ui_edit" -> "ui_modal"
           [] p = "ui_modal" -> "ui_fill"
           [] p = "ui_fill" -> "ui_save"
           [] p = "ui_save" -> "ui_wait"

UiStepPcs(v) ==
    IF v = "main"
    THEN {"ui_open", "ui_fill", "ui_select", "ui_save"}
    ELSE {"ui_nav", "ui_edit", "ui_modal", "ui_fill", "ui_save"}

NoWrite == St("-")

\* the status an except clause of a UI step stores before its pause
FailStatus(v, p) ==
    IF v = "main"
    THEN NoWrite
    ELSE CASE p = "ui_nav" -> NoWrite
           [] p = "ui_edit" -> St("Pending - edit not available")
           [] p = "ui_modal" -> St("Pending - edit modal missing")
           [] p = "ui_fill" -> St("Pending - error filling input")
           [] p = "ui_save" -> St("Pending - could not click save")

UiPcs == {"ui_detect", "ui_open", "ui_nav", "ui_edit", "ui_modal", "ui_fill",
          "ui_select", "ui_save", "ui_wait"}

RowPcs == UiPcs \cup {"row_read", "val_write", "pause_val", "fail_write",
                      "pause_ui", "done_write", "pause_done", "exc_write",
                      "pause_exc"}

\* a UI interaction for the current row is observed
NoteUi ==
    /\ uiRows' = uiRows \cup {rid}
    /\ firstUi' = IF firstUi = NoId THEN rid ELSE firstUi

iterVars == <<cur, role_index, newStatus, excKind>>

\* logging.info / warning / error / exception: an event is appended
Logged == log_tail' = "pending"

\* flush_logs() (main.py 97-103) after events other than a pause event
Flushed == log_tail' = "flushed"

\* variant of user_pause that logs the pause event and does not flush
PauseLoggedNoFlush == log_tail' = "pending"

\* main.py 111-112: user_pause logs the pause event, then flush_logs()
PauseLogged == log_tail' = "flushed_pause"

\* the locals of an iteration are dead once the iteration is over
ClearIter ==
    /\ cur' = NoFields
    /\ role_index' = 0
    /\ newStatus' = St("")
    /\ excKind' = ""

ClearRowObs ==
    /\ uiFails' = 0
    /\ logEv' = 0
    /\ doneWrites' = 0
    /\ otherFail' = FALSE

\* the row loop is left for the finally clause
LeaveLoop(cause) ==
    /\ pc' = "pause_final"
    /\ PauseLogged
    /\ exitCause' = cause
    /\ idx' = 0
    /\ ClearIter
    /\ ClearRowObs

\* variant that passes over the next row of the list
AdvanceSkipOne ==
    IF idx + 1 < Len(row_ids)
    THEN /\ idx' = idx + 2
         /\ pc' = "row_read"
         /\ Flushed
         /\ exitCause' = exitCause
         /\ ClearIter
         /\ ClearRowObs
    ELSE LeaveLoop("completed")

\* for rid in row_ids: the next row, or the end of the loop
Advance ==
    IF idx < Len(row_ids)
    THEN /\ idx' = idx + 1
         /\ pc' = "row_read"
         /\ Flushed
         /\ exitCause' = exitCause
         /\ ClearIter
         /\ ClearRowObs
    ELSE LeaveLoop("completed")

\* an exception reaches "except Exception" of the row's try block
\* (main.py 404-405); the counts of C5 stop
ToHandler(kind) ==
    /\ excKind' = kind
    /\ Logged
    /\ newStatus' = St("")
    /\ UNCHANGED <<cur, role_index>>
    /\ logEv' = 0
    /\ uiFails' = 0
    /\ doneWrites' = doneWrites
    /\ otherFail' = TRUE
    /\ pc' = "exc_write"

\* an exception leaves the retry loop and reaches the finally clause
Escape == LeaveLoop("error")

\* a failed UI step of the five kinds is logged (counted until another
\* kind of failure has occurred for the row)
CountUiFail ==
    /\ logEv' = IF otherFail THEN logEv ELSE logEv + 1
    /\ uiFails' = IF otherFail THEN uiFails ELSE uiFails + 1
    /\ UNCHANGED <<doneWrites, otherFail>>

-----------------------------------------------------------------------------
(* Start-up: main.py 217-250, main1.py 251-289                              *)
\* variant that copies the source over an existing working copy
make_working_copyAlways(src, t, exists) == src.rows

\* main.py 123-133, main1.py 118-128: the table the working path holds on return
make_working_copy(src, t, exists) == IF exists THEN t ELSE src.rows

\* variant that opens the log file for writing
setup_loggingTruncate(n) == 1

\* main.py 78-94: FileHandler(mode="a"), then the "New run started" event
setup_logging(n) == n + 1

\* variant that raises after the browser was started
StartupRaiseLate ==
    /\ pc' = "exited"
    /\ session' = "open"
    /\ exitCause' = "startup_error"
    /\ row_ids' = <<>>
    /\ startDone' = <<>>

\* an exception raised before make_driver: the process ends with a traceback
StartupRaise ==
    /\ pc' = "exited"
    /\ session' = "none"
    /\ exitCause' = "startup_error"
    /\ row_ids' = <<>>
    /\ startDone' = <<>>

Startup(getOk) ==
    /\ pc \in {"idle", "exited"}
    /\ run < MaxRuns
    /\ getOk \/ faults < MaxFaults
    /\ run' = run + 1
    /\ faults' = IF getOk THEN faults ELSE faults + 1
    /\ IF ~ source.exists
       THEN \* main.py 125-126: raised before logging is set up
            /\ getOk
            /\ StartupRaise
            /\ UNCHANGED <<working_exists, hasRowID, table, log_runs, log_tail>>
       ELSE LET wc == make_working_copy(source, table, working_exists)
                t1 == EnsureRowIDs(wc, working_exists /\ hasRowID)
                ids == ResolveRowIds(t1, creator_filter, variant)
            IN  /\ table' = t1
                /\ working_exists' = TRUE
                /\ log_runs' = setup_logging(log_runs)
                /\ hasRowID' = TRUE
                /\ IF variant = "main1" /\ ~ source.cols
                   THEN \* main1.py 268-274: logged and re-raised
                        /\ getOk
                        /\ StartupRaise
                        /\ log_tail' = "closed"
                   ELSE IF NothingToDo(ids)
                   THEN /\ pc' = "exited"
                        /\ log_tail' = "closed"
                        /\ session' = "none"
                        /\ exitCause' = "empty"
                        /\ row_ids' = <<>>
                        /\ startDone' = <<>>
                        /\ getOk
                   ELSE /\ session' = "open"
                        /\ PauseLogged
                        /\ pc' = IF getOk THEN "pause_login" ELSE "pause_final"
                        /\ exitCause' = IF getOk THEN "none" ELSE "error"
                        /\ row_ids' = ids
                        /\ startDone' = DoneSnapshot(t1)
    /\ idx' = 0
    /\ ClearIter
    /\ ClearRowObs
    /\ uiRows' = {}
    /\ firstUi' = NoId
    /\ aborted' = FALSE
    /\ loopEntered' = FALSE
    /\ killedAfter' = IF exitCause = "killed" THEN killedAfter ELSE NoId
    /\ df_all' = IF pc' = "exited" THEN <<>> ELSE table'
    /\ UNCHANGED <<cfgVars, clock, edits, submits, surface>>

EnterLoop ==
    /\ idx' = 1
    /\ pc' = "row_read"
    /\ Flushed
    /\ loopEntered' = TRUE

\* main.py 250 / main1.py 289: the operator acknowledges the login pause
LoginAck ==
    /\ pc = "pause_login"
    /\ IF variant = "main"
       THEN /\ pc' = "nav_confirm"
            /\ UNCHANGED <<idx, loopEntered, log_tail>>
       ELSE EnterLoop
    /\ UNCHANGED <<cfgVars, working_exists, log_runs, surface, df_all, hasRowID, table, run, session, row_ids, iterVars,
                   clock, faults, edits, startDone, uiRows, firstUi, submits,
                   rowObs, aborted, exitCause, killedAfter>>

\* main.py 253-263: Users tab clickable and Add User button present
NavConfirm(ok) ==
    /\ pc = "nav_confirm"
    /\ IF ok
       THEN /\ EnterLoop
            /\ faults' = faults
       ELSE /\ faults < MaxFaults
            /\ faults' = faults + 1
            /\ pc' = "pause_nav"
            /\ PauseLogged
            /\ UNCHANGED <<idx, loopEntered>>
    /\ UNCHANGED <<cfgVars, working_exists, log_runs, surface, df_all, hasRowID, table, run, session, row_ids, iterVars,
                   clock, edits, startDone, uiRows, firstUi, submits, rowObs,
                   aborted, exitCause, killedAfter>>

NavAck ==
    /\ pc = "pause_nav"
    /\ pc' = "nav_confirm"
    /\ UNCHANGED <<cfgVars, working_exists, log_runs, surface, df_all, hasRowID, table, run, session, row_ids, idx,
                   iterVars, clock, faults, edits, startDone, uiRows, firstUi,
                   submits, rowObs, log_tail, aborted, exitCause, loopEntered,
                   killedAfter>>

-----------------------------------------------------------------------------
(* One retry iteration: main.py 270-324, main1.py 296-338                   *)
\* the surface an attempt of main.py may find: not there, open and empty,
\* or open with the text an earlier attempt typed
SurfaceAtStart == {"closed", "empty", "stale"}

RowRead(ioOk) ==
    /\ pc = "row_read"
    /\ IF ~ ioOk
       THEN /\ faults < MaxFaults
            /\ faults' = faults + 1
            /\ Escape
       ELSE /\ faults' = faults
            /\ IF ~ HasRow(table, rid) \/ IsDone(RowOf(table, rid).Status)
               THEN Advance
               ELSE LET f == ReadFields(RowOf(table, rid))
                        v == Validate(variant, f)
                    IN  /\ cur' = f
                        /\ excKind' = ""
                        /\ UNCHANGED <<idx, exitCause, uiFails, logEv, doneWrites>>
                        /\ IF v = Valid
                           THEN /\ role_index' = IF variant = "main"
                                                 THEN RoleIndexOf(f)
                                                 ELSE 0
                                /\ pc' = IF variant = "main" THEN "ui_detect" ELSE "ui_nav"
                                /\ IF variant = "main" THEN log_tail' = log_tail ELSE Logged
                                /\ UNCHANGED <<newStatus, otherFail>>
                           ELSE /\ newStatus' = v
                                /\ Logged
                                /\ otherFail' = TRUE
                                /\ pc' = "val_write"
                                /\ role_index' = 0
    /\ surface' \in IF /\ ioOk
                      /\ variant = "main"
                      /\ HasRow(table, rid)
                      /\ ~ IsDone(RowOf(table, rid).Status)
                      /\ Validate(variant, ReadFields(RowOf(table, rid))) = Valid
                   THEN SurfaceAtStart
                   ELSE {"unknown"}
    /\ df_all' = IF ioOk THEN table ELSE df_all
    /\ UNCHANGED <<cfgVars, working_exists, log_runs, hasRowID, table, run, session, row_ids, clock,
                   edits, startDone, uiRows, firstUi, submits, aborted,
                   loopEntered, killedAfter>>

\* variant that writes the table in memory without loading the store again
ReloadedStale(df, t) == df

\* main.py 382, 394, 406 (main1.py 355, 405, 427): df_all = pd.read_excel(working_path)
Reloaded(df, t) == t

\* main.py 294-295 (and 302-303, 310-311, 320-321): outside the try block
ValWrite(ioOk) ==
    /\ pc = "val_write"
    /\ IF ioOk
       THEN /\ table' = SetStatus(df_all, rid, newStatus)
            /\ pc' = "pause_val"
            /\ PauseLogged
            /\ newStatus' = St("")
            /\ UNCHANGED <<faults, exitCause, idx, cur, role_index, excKind, rowObs>>
       ELSE /\ faults < MaxFaults
            /\ faults' = faults + 1
            /\ Escape
            /\ table' = table
    /\ df_all' = IF ioOk THEN table' ELSE df_all
    /\ UNCHANGED <<cfgVars, working_exists, log_runs, surface, hasRowID, run, session, row_ids, clock, edits,
                   startDone, uiRows, firstUi, submits, aborted, loopEntered,
                   killedAfter>>

-----------------------------------------------------------------------------
(* UI phase: main.py 327-399, main1.py 341-421                              *)

\* main.py 329-332: is the modal already open?
UiDetect(present) ==
    /\ pc = "ui_detect"
    /\ present = (surface # "closed")
    /\ pc' = IF present THEN "ui_fill" ELSE "ui_open"
    /\ IF present THEN Logged ELSE log_tail' = log_tail
    /\ NoteUi
    /\ UNCHANGED <<cfgVars, working_exists, log_runs, surface, df_all, hasRowID, table, run, session, row_ids, idx,
                   iterVars, clock, faults, edits, startDone, submits, rowObs,
                   aborted, exitCause, loopEntered, killedAfter>>

\* main.py 180-186: el.clear() with its exception swallowed, then send_keys
clear_and_type(s, clearOk) ==
    IF clearOk \/ s = "empty" THEN "typed" ELSE "mixed"

\* open / fill / select / click Save succeed; clearOk: el.clear() did not raise
UiStepOk(clearOk) ==
    /\ pc \in UiStepPcs(variant)
    /\ clearOk \/ (pc = "ui_fill" /\ surface = "stale" /\ faults < MaxFaults)
    /\ faults' = IF clearOk THEN faults ELSE faults + 1
    /\ pc' = NextUi(variant, pc)
    /\ surface' = CASE pc = "ui_open" -> "empty"
                     [] pc = "ui_modal" -> "stale"
                     [] pc = "ui_fill" -> clear_and_type(surface, clearOk)
                     [] OTHER -> surface
    /\ IF NextUi(variant, pc) = "ui_save" THEN Flushed ELSE log_tail' = log_tail
    /\ NoteUi
    /\ UNCHANGED <<cfgVars, working_exists, log_runs, df_all, hasRowID, table, run, session, row_ids, idx,
                   iterVars, clock, edits, startDone, submits, rowObs,
                   aborted, exitCause, loopEntered, killedAfter>>

\* the step raises and its own except clause runs
UiStepFail ==
    /\ pc \in UiStepPcs(variant)
    /\ faults < MaxFaults
    /\ faults' = faults + 1
    /\ NoteUi
    /\ CountUiFail
    /\ IF FailStatus(variant, pc) = NoWrite
       THEN /\ pc' = "pause_ui"
            /\ PauseLogged
            /\ newStatus' = newStatus
       ELSE /\ pc' = "fail_write"
            /\ Logged
            /\ newStatus' = FailStatus(variant, pc)
    /\ surface' = "unknown"
    /\ UNCHANGED <<cfgVars, working_exists, log_runs, df_all, hasRowID, table, run, session, row_ids, idx, cur,
                   role_index, excKind, clock, edits, startDone, submits,
                   aborted, exitCause, loopEntered, killedAfter>>

\* main.py 378-380: the modal became invisible within WAIT_TIME
UiWaitOk ==
    /\ pc = "ui_wait"
    /\ pc' = "done_write"
    /\ NoteUi
    /\ submits' = [submits EXCEPT ![rid] = @ + 1]
    /\ surface' = "unknown"
    /\ UNCHANGED <<cfgVars, working_exists, log_runs, df_all, hasRowID, table, run, session, row_ids, idx,
                   iterVars, clock, faults, edits, startDone, rowObs, log_tail, aborted,
                   exitCause, loopEntered, killedAfter>>

\* variant that treats the timeout as a success
UiWaitTimeoutMarksDone ==
    /\ pc = "ui_wait"
    /\ faults < MaxFaults
    /\ faults' = faults + 1
    /\ NoteUi
    /\ pc' = "done_write"
    /\ surface' = "unknown"
    /\ UNCHANGED <<cfgVars, working_exists, log_runs, df_all, hasRowID, table, run, session, row_ids, idx,
                   iterVars, clock, edits, startDone, submits, rowObs, log_tail,
                   aborted, exitCause, loopEntered, killedAfter>>

\* main.py 391-393: TimeoutException
UiWaitTimeout ==
    /\ pc = "ui_wait"
    /\ faults < MaxFaults
    /\ faults' = faults + 1
    /\ NoteUi
    /\ CountUiFail
    /\ newStatus' = St("Pending - save modal open")
    /\ pc' = "fail_write"
    /\ Logged
    /\ surface' = "unknown"
    /\ UNCHANGED <<cfgVars, working_exists, log_runs, df_all, hasRowID, table, run, session, row_ids, idx, cur,
                   role_index, excKind, clock, edits, startDone, submits,
                   aborted, exitCause, loopEntered, killedAfter>>

\* find_elements or the wait raises something no inner except clause names
UiRaise ==
    /\ pc \in {"ui_detect", "ui_wait"}
    /\ faults < MaxFaults
    /\ faults' = faults + 1
    /\ NoteUi
    /\ ToHandler("WebDriverException")
    /\ surface' = "unknown"
    /\ UNCHANGED <<cfgVars, working_exists, log_runs, df_all, hasRowID, table, run, session, row_ids, idx,
                   clock, edits, startDone, submits, aborted, exitCause,
                   loopEntered, killedAfter>>

\* main1.py 356-358 (and 368-370, 380-382, 395-397), main.py 394-396:
\* a status write inside the try block
FailWrite(ioOk) ==
    /\ pc = "fail_write"
    /\ IF ioOk
       THEN /\ table' = SetStatus(Reloaded(df_all, table), rid, newStatus)
            /\ pc' = "pause_ui"
            /\ PauseLogged
            /\ newStatus' = St("")
            /\ UNCHANGED <<faults, cur, role_index, excKind, rowObs>>
       ELSE /\ faults < MaxFaults
            /\ faults' = faults + 1
            /\ ToHandler("PermissionError")
            /\ table' = table
    /\ df_all' = IF ioOk THEN table' ELSE df_all
    /\ UNCHANGED <<cfgVars, working_exists, log_runs, surface, hasRowID, run, session, row_ids, idx, clock, edits,
                   startDone, uiRows, firstUi, submits, aborted, exitCause,
                   loopEntered, killedAfter>>

\* main.py 382-387: success
DoneWrite(ioOk) ==
    /\ pc = "done_write"
    /\ IF ioOk
       THEN /\ table' = SetDone(Reloaded(df_all, table), rid, clock)
            /\ clock' = clock + 1
            /\ doneWrites' = doneWrites + 1
            /\ pc' = "pause_done"
            /\ PauseLogged
            /\ UNCHANGED <<faults, iterVars, uiFails, logEv, otherFail>>
       ELSE /\ faults < MaxFaults
            /\ faults' = faults + 1
            /\ ToHandler("PermissionError")
            /\ UNCHANGED <<table, clock>>
    /\ df_all' = IF ioOk THEN table' ELSE df_all
    /\ UNCHANGED <<cfgVars, working_exists, log_runs, surface, hasRowID, run, session, row_ids, idx, edits,
                   startDone, uiRows, firstUi, submits, aborted, exitCause,
                   loopEntered, killedAfter>>

\* main.py 404-409: except Exception
ExcWrite(ioOk) ==
    /\ pc = "exc_write"
    /\ IF ioOk
       THEN /\ table' = SetStatus(Reloaded(df_all, table), rid,
                                 <<"Error - ", <<excKind>>>>)
            /\ pc' = "pause_exc"
            /\ PauseLogged
            /\ excKind' = ""
            /\ UNCHANGED <<faults, exitCause, idx, cur, role_index, newStatus, rowObs>>
       ELSE /\ faults < MaxFaults
            /\ faults' = faults + 1
            /\ Escape
            /\ table' = table
    /\ df_all' = IF ioOk THEN table' ELSE df_all
    /\ UNCHANGED <<cfgVars, working_exists, log_runs, surface, hasRowID, run, session, row_ids, clock, edits,
                   startDone, uiRows, firstUi, submits, aborted, loopEntered,
                   killedAfter>>

-----------------------------------------------------------------------------
(* Interaction Gate: main.py 106-120                                        *)

\* pauses whose call site passes mandatory=True
MandatoryPauses == {"pause_login", "pause_nav", "pause_val", "pause_ui", "pause_exc"}

\* pauses whose call site passes mandatory=False (main.py 389, 419)
ConditionalPauses == {"pause_done", "pause_final"}

PausePcs == MandatoryPauses \cup ConditionalPauses

\* variant that blocks for mandatory pauses only
user_pauseMandatoryOnly(mandatory) == mandatory

\* main.py 113: TRUE when user_pause calls input(), FALSE when it returns
user_pause(mandatory) == mandatory \/ testing

\* the process is blocked on input() at pause p
Blocking(p) == p \in PausePcs /\ user_pause(p \in MandatoryPauses)

\* pauses whose call site is inside the row's try block
InTryPauses == {"pause_ui", "pause_done"}

\* variant whose "continue" resumes after the reload of main.py 272-288
RetryAckSkipReload ==
    /\ pc \in {"pause_val", "pause_ui", "pause_exc"}
    /\ pc' = IF variant = "main" THEN "ui_detect" ELSE "ui_nav"
    /\ UNCHANGED <<cfgVars, working_exists, log_runs, surface, df_all, hasRowID, table, run, session, row_ids, idx,
                   iterVars, clock, faults, edits, startDone, uiRows, firstUi,
                   submits, rowObs, log_tail, aborted, exitCause, loopEntered,
                   killedAfter>>

\* ENTER at a retry pause: continue
RetryAck ==
    /\ pc \in {"pause_val", "pause_ui", "pause_exc"}
    /\ pc' = "row_read"
    /\ ClearIter
    /\ UNCHANGED <<cfgVars, working_exists, log_runs, surface, df_all, hasRowID, table, run, session, row_ids, idx,
                   clock, faults, edits, startDone, uiRows, firstUi, submits,
                   rowObs, log_tail, aborted, exitCause, loopEntered,
                   killedAfter>>

\* main.py 389-390: the conditional pause returns (ENTER, or no blocking)
DonePass ==
    /\ pc = "pause_done"
    /\ Advance
    /\ UNCHANGED <<cfgVars, working_exists, log_runs, surface, df_all, hasRowID, table, run, session, row_ids, clock,
                   faults, edits, startDone, uiRows, firstUi, submits, aborted,
                   loopEntered, killedAfter>>

\* KeyboardInterrupt at any blocking pause of the run, or EOFError at a pause
\* outside the row's try block: the exception reaches the finally clause
AbortPause(kind) ==
    /\ pc # "pause_final"
    /\ Blocking(pc)
    /\ kind = "EOFError" => pc \notin InTryPauses
    /\ faults < MaxFaults
    /\ faults' = faults + 1
    /\ aborted' = TRUE
    /\ LeaveLoop("abort")
    /\ UNCHANGED <<cfgVars, working_exists, log_runs, surface, df_all, hasRowID, table, run, session, row_ids, clock,
                   edits, startDone, uiRows, firstUi, submits,
                   loopEntered, killedAfter>>

\* EOFError at a pause inside the try block: an Exception, so main.py 404
EofInTry ==
    /\ pc \in InTryPauses
    /\ Blocking(pc)
    /\ faults < MaxFaults
    /\ faults' = faults + 1
    /\ aborted' = TRUE
    /\ ToHandler("EOFError")
    /\ UNCHANGED <<cfgVars, working_exists, log_runs, surface, df_all, hasRowID, table, run, session, row_ids, idx,
                   clock, edits, startDone, uiRows, firstUi, submits,
                   exitCause, loopEntered, killedAfter>>

\* the process has ended: its local variables are gone, and so is what was
\* observed of its row loop
ProcessGone ==
    /\ idx' = 0
    /\ log_tail' = "closed"
    /\ row_ids' = <<>>
    /\ ClearIter
    /\ ClearRowObs
    /\ startDone' = <<>>
    /\ uiRows' = {}
    /\ firstUi' = NoId
    /\ loopEntered' = FALSE

\* main.py 417-425: the final pause returns or raises an Exception; quit
FinalQuit ==
    /\ pc = "pause_final"
    /\ session' = "closed"
    /\ pc' = "exited"
    /\ ProcessGone
    /\ df_all' = <<>>
    /\ UNCHANGED <<cfgVars, working_exists, log_runs, surface, hasRowID, table, run, clock, faults, edits,
                   submits, aborted, exitCause, killedAfter>>

\* KeyboardInterrupt at the final pause is not an Exception: quit is skipped
FinalInterrupt ==
    /\ pc = "pause_final"
    /\ Blocking(pc)
    /\ pc' = "exited"
    /\ ProcessGone
    /\ df_all' = <<>>
    /\ UNCHANGED <<cfgVars, working_exists, log_runs, surface, hasRowID, table, run, session, clock, faults,
                   edits, submits, aborted, exitCause, killedAfter>>

-----------------------------------------------------------------------------
(* Environment                                                              *)

\* the process is killed; nothing of the finally clause runs
Kill ==
    /\ pc \notin {"idle", "exited"}
    /\ faults < MaxFaults
    /\ faults' = faults + 1
    /\ pc' = "exited"
    /\ exitCause' = "killed"
    /\ session' = "lost"
    /\ killedAfter' = IF pc = "pause_done" THEN rid ELSE NoId
    /\ ProcessGone
    /\ aborted' = FALSE
    /\ surface' = "unknown"
    /\ df_all' = <<>>
    /\ UNCHANGED <<cfgVars, working_exists, log_runs, hasRowID, table, run, clock, edits, submits>>

SetFields(r, f) ==
    [r EXCEPT !.Creator = f.Creator, !.User = f.User, !.Name = f.Name,
              !.Last = f.Last, !.Email = f.Email, !.Role = f.Role]

RemoveAt(t, i) == SubSeq(t, 1, i - 1) \o SubSeq(t, i + 1, Len(t))

\* the row a pause of the row loop is about
EditableRows ==
    IF pc \in RowPcs THEN RowPositions(table, rid) ELSE {}

EditFields == {FGood, FNoAt}

\* while the process is blocked in a pause the operator edits the data
\* cells of a row, removes a row, or adds a row at the end (Status, DoneAt
\* and RowID are the process's columns: the added row has them empty)
OperatorEdit ==
    /\ Blocking(pc)
    /\ pc # "pause_final"
    /\ edits < MaxEdits
    /\ edits' = edits + 1
    /\ \/ \E i \in EditableRows :
             \/ \E f \in EditFields :
                   /\ f # FieldsOf(table[i])
                   /\ table' = [table EXCEPT ![i] = SetFields(@, f)]
             \/ table' = RemoveAt(table, i)
       \/ /\ Len(table) < MaxRows
          /\ table' = Append(table, MkRow(FGood, NoId, St(""), 0))
    /\ UNCHANGED <<cfgVars, working_exists, log_runs, surface, df_all, hasRowID, pc, run, session, row_ids, idx,
                   iterVars, clock, faults, startDone, uiRows, firstUi,
                   submits, rowObs, log_tail, aborted, exitCause, loopEntered,
                   killedAfter>>

-----------------------------------------------------------------------------
Next ==
    \/ \E ok \in BOOLEAN : Startup(ok)
    \/ LoginAck
    \/ \E ok \in BOOLEAN : NavConfirm(ok)
    \/ NavAck
    \/ \E ok \in BOOLEAN : RowRead(ok)
    \/ \E ok \in BOOLEAN : ValWrite(ok)
    \/ \E present \in BOOLEAN : UiDetect(present)
    \/ \E clearOk \in BOOLEAN : UiStepOk(clearOk)
    \/ UiStepFail
    \/ UiWaitOk
    \/ UiWaitTimeout
    \/ UiRaise
    \/ \E ok \in BOOLEAN : FailWrite(ok)
    \/ \E ok \in BOOLEAN : DoneWrite(ok)
    \/ \E ok \in BOOLEAN : ExcWrite(ok)
    \/ RetryAck
    \/ DonePass
    \/ \E kind \in {"KeyboardInterrupt", "EOFError"} : AbortPause(kind)
    \/ EofInTry
    \/ FinalQuit
    \/ FinalInterrupt
    \/ Kill
    \/ OperatorEdit

Spec == Init /\ [][Next]_vars

\* a run in which no abort signal is raised and the process is not killed
LiveNext ==
    \/ \E ok \in BOOLEAN : Startup(ok)
    \/ LoginAck
    \/ \E ok \in BOOLEAN : NavConfirm(ok)
    \/ NavAck
    \/ \E ok \in BOOLEAN : RowRead(ok)
    \/ \E ok \in BOOLEAN : ValWrite(ok)
    \/ \E present \in BOOLEAN : UiDetect(present)
    \/ \E clearOk \in BOOLEAN : UiStepOk(clearOk)
    \/ UiStepFail
    \/ UiWaitOk
    \/ UiWaitTimeout
    \/ UiRaise
    \/ \E ok \in BOOLEAN : FailWrite(ok)
    \/ \E ok \in BOOLEAN : DoneWrite(ok)
    \/ \E ok \in BOOLEAN : ExcWrite(ok)
    \/ RetryAck
    \/ DonePass
    \/ FinalQuit
    \/ OperatorEdit

\* main.py 206-425: the statements of the single thread of the process, and
\* the return of input() at a pause the operator acknowledges
ProcessStep ==
    \/ LoginAck
    \/ \E ok \in BOOLEAN : NavConfirm(ok)
    \/ NavAck
    \/ \E ok \in BOOLEAN : RowRead(ok)
    \/ \E ok \in BOOLEAN : ValWrite(ok)
    \/ \E present \in BOOLEAN : UiDetect(present)
    \/ \E clearOk \in BOOLEAN : UiStepOk(clearOk)
    \/ UiStepFail
    \/ UiWaitOk
    \/ UiWaitTimeout
    \/ UiRaise
    \/ \E ok \in BOOLEAN : FailWrite(ok)
    \/ \E ok \in BOOLEAN : DoneWrite(ok)
    \/ \E ok \in BOOLEAN : ExcWrite(ok)
    \/ RetryAck
    \/ DonePass
    \/ FinalQuit

\* the thread runs on while it is not blocked, and every pause it blocks in
\* is acknowledged; starting a run and editing the table stay the operator's
\* choice
LiveSpec == Init /\ [][LiveNext]_vars /\ WF_vars(ProcessStep)

-----------------------------------------------------------------------------
(* Row-id resolution on its own (main.py 221-242): start-up applied to      *)
(* source tables whose Creator cells vary in case and padding               *)
FilterCreators == {<<"A">>, <<"a">>, <<"b">>, <<" ", "A">>}

FilterValues == {<<>>, <<"a">>, <<"A">>, <<"b">>}

FilterTables ==
    UNION {{[i \in 1..n |-> MkRow([FGood EXCEPT !.Creator = cs[i]], NoId, St(""), 0)] :
                cs \in [1..n -> FilterCreators]} :
           n \in 0..FilterRows}

FilterInit ==
    /\ variant = "main"
    /\ testing = FALSE
    /\ creator_filter \in FilterValues
    /\ working_exists = FALSE
    /\ hasRowID = FALSE
    /\ table = <<>>
    /\ \E rows \in FilterTables : source = [exists |-> TRUE, cols |-> TRUE, rows |-> rows]
    /\ pc = "idle"
    /\ run = 0
    /\ session = "none"
    /\ row_ids = <<>>
    /\ idx = 0
    /\ cur = NoFields
    /\ role_index = 0
    /\ newStatus = St("")
    /\ excKind = ""
    /\ clock = 2
    /\ faults = 0
    /\ edits = 0
    /\ startDone = <<>>
    /\ uiRows = {}
    /\ firstUi = NoId
    /\ submits = [id \in 0..(MaxRows - 1) |-> 0]
    /\ uiFails = 0
    /\ logEv = 0
    /\ doneWrites = 0
    /\ log_runs = 0
    /\ surface = "unknown"
    /\ df_all = <<>>
    /\ log_tail = "closed"
    /\ otherFail = FALSE
    /\ aborted = FALSE
    /\ exitCause = "none"
    /\ loopEntered = FALSE
    /\ killedAfter = NoId

FilterNext == Startup(TRUE)

FilterSpec == FilterInit /\ [][FilterNext]_vars

-----------------------------------------------------------------------------
(* Identity validation on its own (main.py 195-199, main1.py 231-235): the  *)
(* check of main.py 291 / main1.py 316 applied to any short string          *)
IdentityAlphabet == {"a", " ", "\t", ":"}

IdentityStrings == UNION {[1..n -> IdentityAlphabet] : n \in 0..MaxStrLen}

IdentityInit ==
    /\ variant \in {"main", "main1"}
    /\ testing = FALSE
    /\ creator_filter = <<>>
    /\ source = [exists |-> TRUE, cols |-> TRUE, rows |-> <<>>]
    /\ working_exists = FALSE
    /\ hasRowID = FALSE
    /\ table = <<>>
    /\ pc = "idle"
    /\ run = 0
    /\ session = "none"
    /\ row_ids = <<>>
    /\ idx = 0
    /\ \E str \in IdentityStrings : cur = [NoFields EXCEPT !.User = str]
    /\ role_index = 0
    /\ newStatus = St("")
    /\ excKind = ""
    /\ clock = 2
    /\ faults = 0
    /\ edits = 0
    /\ startDone = <<>>
    /\ uiRows = {}
    /\ firstUi = NoId
    /\ submits = [id \in 0..(MaxRows - 1) |-> 0]
    /\ uiFails = 0
    /\ logEv = 0
    /\ doneWrites = 0
    /\ log_runs = 0
    /\ surface = "unknown"
    /\ df_all = <<>>
    /\ log_tail = "closed"
    /\ otherFail = FALSE
    /\ aborted = FALSE
    /\ exitCause = "none"
    /\ loopEntered = FALSE
    /\ killedAfter = NoId

\* main.py 291-294 / main1.py 316-318: the identity check and its outcome
IdentityCheck ==
    /\ pc = "idle"
    /\ pc' = "exited"
    /\ newStatus' =
          IF variant = "main"
          THEN IF validate_username(cur.User) THEN Valid
               ELSE St("Pending - invalid username")
          ELSE IF validate_pcc(cur.User) THEN Valid
               ELSE St("Pending - invalid PCC")
    /\ UNCHANGED <<cfgVars, working_exists, log_runs, surface, df_all, hasRowID, table, run, session, row_ids, idx, cur,
                   role_index, excKind, clock, faults, edits, startDone,
                   uiRows, firstUi, submits, rowObs, log_tail, aborted,
                   exitCause, loopEntered, killedAfter>>

IdentityNext == IdentityCheck

IdentitySpec == IdentityInit /\ [][IdentityNext]_vars

-----------------------------------------------------------------------------
(* The validations of the contact-update variant on their own (main1.py     *)
(* 310-338): the PCC and e-mail cells of a row are any short strings        *)
EmailAlphabet == {"a", "@", " "}

EmailStrings ==
    UNION {[1..n -> EmailAlphabet] : n \in 0..(MaxStrLen - 1)}
        \cup {FGood.Email, <<" ">> \o FGood.Email \o <<" ">>, FNoAt.Email}

ContactInit ==
    /\ variant = "main1"
    /\ testing = FALSE
    /\ creator_filter = <<>>
    /\ source = [exists |-> TRUE, cols |-> TRUE, rows |-> <<>>]
    /\ working_exists = FALSE
    /\ hasRowID = FALSE
    /\ table = <<>>
    /\ pc = "idle"
    /\ run = 0
    /\ session = "none"
    /\ row_ids = <<>>
    /\ idx = 0
    /\ \E p \in IdentityStrings, e \in EmailStrings :
          cur = [NoFields EXCEPT !.User = p, !.Email = e]
    /\ role_index = 0
    /\ newStatus = St("")
    /\ excKind = ""
    /\ clock = 2
    /\ faults = 0
    /\ edits = 0
    /\ startDone = <<>>
    /\ uiRows = {}
    /\ firstUi = NoId
    /\ submits = [id \in 0..(MaxRows - 1) |-> 0]
    /\ uiFails = 0
    /\ logEv = 0
    /\ doneWrites = 0
    /\ log_runs = 0
    /\ surface = "unknown"
    /\ df_all = <<>>
    /\ log_tail = "closed"
    /\ otherFail = FALSE
    /\ aborted = FALSE
    /\ exitCause = "none"
    /\ loopEntered = FALSE
    /\ killedAfter = NoId

\* main1.py 310-338: the cells are read and stripped, then checked in order
ContactCheck ==
    /\ pc = "idle"
    /\ pc' = "exited"
    /\ cur' = ReadFields(cur)
    /\ newStatus' = ValidateMain1(cur')
    /\ UNCHANGED <<cfgVars, working_exists, log_runs, surface, df_all, hasRowID, table, run, session, row_ids, idx,
                   role_index, excKind, clock, faults, edits, startDone,
                   uiRows, firstUi, submits, rowObs, log_tail, aborted,
                   exitCause, loopEntered, killedAfter>>

ContactNext == ContactCheck

ContactSpec == ContactInit /\ [][ContactNext]_vars

-----------------------------------------------------------------------------
(* Properties                                                               *)

\* position of a row id in the resolved list (0 when it is not there)
PosIn(ids, id) ==
    IF \E j \in 1..Len(ids) : ids[j] = id
    THEN CHOOSE j \in 1..Len(ids) : ids[j] = id
    ELSE 0

NoAt(s) == ~ \E i \in 1..Len(s) : s[i] = "@"

CurStatus == RowOf(table, rid).Status

\* C1: a row whose persisted status is Done when a run starts gets no UI
\* interaction in that run, and its Status and DoneAt keep the values they
\* had at the start of the run.
IdempotentResume ==
    \A id \in DOMAIN startDone :
        /\ id \notin uiRows
        /\ HasRow(table, id) =>
              <<RowOf(table, id).Status, RowOf(table, id).DoneAt>> = startDone[id]

\* a second run has rows that were Done at its start and has worked on another row
IdempotentResumeWitness ==
    /\ run = 2
    /\ DOMAIN startDone # {}
    /\ uiRows # {}
    /\ pc = "pause_done"

\* C2: once a row's status is Done, no later step stores a different status
\* for that row (the row may only disappear by the operator's hand).
DoneAbsorbing ==
    [][\A i \in 1..Len(table) :
          (IsDone(table[i].Status) /\ HasRow(table', table[i].RowID))
              => IsDone(RowOf(table', table[i].RowID).Status)]_vars

\* C3: over all runs, the form of a row is submitted with success (Save
\* accepted, input surface observed closed) at most once.
SubmittedAtMostOnce == \A id \in DOMAIN submits : submits[id] <= 1

\* C4: in the run that follows a kill right after row r was persisted Done,
\* r gets no UI interaction, and the first UI interaction of the run is for
\* a row that was not Done at the start, every row before it in resolved
\* order having been Done at the start (or removed from the table since).
CrashRecovery ==
    (killedAfter # NoId /\ exitCause # "killed") =>
        /\ killedAfter \notin uiRows
        /\ firstUi # NoId =>
              /\ firstUi \notin DOMAIN startDone
              /\ \A j \in 1..Len(row_ids) :
                    j < PosIn(row_ids, firstUi) =>
                        \/ row_ids[j] \in DOMAIN startDone
                        \/ ~ HasRow(table, row_ids[j])

\* the restarted run has reached the row after the one persisted before the kill
CrashRecoveryWitness ==
    /\ killedAfter # NoId
    /\ exitCause # "killed"
    /\ firstUi # NoId
    /\ PosIn(row_ids, firstUi) > PosIn(row_ids, killedAfter)
    /\ PosIn(row_ids, killedAfter) > 0

PhaseStatuses ==
    {"Pending - edit not available", "Pending - edit modal missing",
     "Pending - error filling input", "Pending - could not click save",
     "Pending - save modal open", "Error - "}

UiFailureRecorded ==
    (pc = "pause_ui" /\ HasRow(table, rid)) => CurStatus[1] \in PhaseStatuses

\* C7: once the row loop was entered, the run leaves it only by completing
\* the rows or by an operator abort (or by being killed): no error escapes.
NoErrorEscapes ==
    loopEntered => exitCause \in {"none", "completed", "abort", "killed"}

\* C8: the retry loop of a row is left only after reading Done, after
\* persisting Done, or when the row is absent (then without UI interaction
\* or table write); any other exit is an operator abort (or a kill).
NoAbandonment ==
    [][(pc \in RowPcs /\ (pc' \notin RowPcs \/ idx' # idx)) =>
          \/ pc = "row_read" /\ HasRow(table, rid) /\ IsDone(CurStatus)
          \/ pc = "row_read" /\ ~ HasRow(table, rid)
                /\ table' = table /\ uiRows' = uiRows
          \/ pc = "pause_done" /\ (HasRow(table, rid) => IsDone(CurStatus))
          \/ aborted' /\ exitCause' = "abort"
          \/ exitCause' = "killed"]_vars

\* C9: after an abort signal at a pause, the process is only in its final
\* clause or gone: no table write, no retry, no later row; and when it has
\* exited (not killed), the UI Session was closed.
AbortStopsRun ==
    aborted =>
        /\ pc \in {"pause_final", "exited"}
        /\ (pc = "exited" /\ exitCause # "killed") => session = "closed"

\* C10 as stated: in an iteration whose freshly read email has no "@" there
\* is no UI step, and the status at the pause is "Pending - invalid email".
ValidationGateAsStated ==
    (pc \in RowPcs \ {"row_read"} /\ NoAt(cur.Email)) =>
        /\ pc \in {"val_write", "pause_val"}
        /\ (pc = "pause_val" /\ HasRow(table, rid)) =>
              CurStatus = St("Pending - invalid email")

\* C10: in an iteration whose freshly read email has no "@" there is no UI
\* step; when the identity check (username / PCC) passes, the status
\* persisted before the pause is "Pending - invalid email".
ValidationGate ==
    (pc \in RowPcs \ {"row_read"} /\ NoAt(cur.Email)) =>
        /\ pc \in {"val_write", "pause_val"}
        /\ (pc = "pause_val" /\ HasRow(table, rid) /\ validate_username(cur.User)) =>
              CurStatus = St("Pending - invalid email")

\* the pause after an email without "@" was rejected
ValidationGateWitness ==
    /\ pc = "pause_val"
    /\ NoAt(cur.Email)
    /\ validate_username(cur.User)
    /\ HasRow(table, rid)
    /\ CurStatus = St("Pending - invalid email")

\* C11: in every retry iteration, the fields the validation checks and the
\* UI steps use (and the role index derived from them) are those of the row
\* as it is in the table since the preceding pause was acknowledged: an edit
\* the operator made during the pause is what the next attempt uses.
FreshReRead ==
    (pc \in UiPcs \cup {"val_write"}) =>
        /\ HasRow(table, rid)
        /\ cur = ReadFields(RowOf(table, rid))
        /\ (variant = "main" /\ pc \in UiPcs) =>
              role_index = role_to_index(normalize_role(RowOf(table, rid).Role))

\* the row failed validation, the operator corrected it during the pause, and
\* the next attempt is typing the corrected values
FreshReReadWitness ==
    /\ pc = "ui_fill"
    /\ otherFail
    /\ faults = 0
    /\ edits = 1
    /\ run = 1
    /\ idx = 1
    /\ cur = ReadFields(RowOf(table, rid))

\* C12: an iteration (of a retry or of a new run) that reads a row whose
\* persisted status is anything but Done (empty, "Pending - ...",
\* "Error - ...") stays on that row and goes on to validation with the fields
\* just read, to the UI phase if they are valid and to the validation status
\* write if not: the old status neither skips the row nor ends the batch.
NonDoneRetryable ==
    [][(/\ pc = "row_read"
        /\ HasRow(table, rid)
        /\ StatusKey(CurStatus[1]) # "done"
        /\ exitCause' \notin {"error", "killed"})
          => /\ idx' = idx
             /\ row_ids' = row_ids
             /\ cur' = ReadFields(RowOf(table, rid))
             /\ pc' = IF Validate(variant, cur') # Valid THEN "val_write"
                      ELSE IF variant = "main" THEN "ui_detect" ELSE "ui_nav"]_vars

\* a new run is in the UI phase of a row that the previous run left with a
\* "Pending - ..." status
NonDoneRetryableWitness ==
    /\ run = 2
    /\ pc \in UiPcs
    /\ uiFails = 0
    /\ ~ otherFail
    /\ HasRow(table, rid)
    /\ CurStatus = St("Pending - invalid email")

\* C13: at a pause the process blocks on operator input if and only if the
\* pause is mandatory or the run is in testing mode; in a non-testing run a
\* row that succeeds on its first attempt reaches its "Row done" pause
\* without blocking there (and with no other pause before it).
PauseBlockingRule ==
    /\ pc \in PausePcs => (Blocking(pc) <=> (pc \notin ConditionalPauses \/ testing))
    /\ (~ testing /\ pc = "pause_done" /\ uiFails = 0 /\ ~ otherFail) =>
          ~ Blocking(pc)

\* a non-testing run is at the conditional pause of a row that succeeded on
\* its first attempt, and does not block there
PauseBlockingRuleWitness ==
    /\ ~ testing
    /\ pc = "pause_done"
    /\ uiFails = 0
    /\ ~ otherFail
    /\ faults = 0
    /\ edits = 0
    /\ ~ Blocking(pc)

\* C14: whenever the process is in a pause (blocked on operator input, or
\* about to return from a pause that does not block), the last event of the
\* Run Log is the pause event and every event logged so far has been flushed.
FlushBeforeBlock ==
    pc \in PausePcs => log_tail = "flushed_pause"

\* the process is blocked in the pause that follows a logged UI failure
FlushBeforeBlockWitness ==
    /\ pc = "pause_ui"
    /\ Blocking(pc)
    /\ uiFails = 1
    /\ log_tail = "flushed_pause"

\* C15: when a run that opened the UI Session has ended (rows completed,
\* operator abort, or an error in the login, navigation or per-row code;
\* not a kill of the process), the session was closed, also when the final
\* "All rows done" pause was itself aborted or failed.
SessionClosure ==
    (pc = "exited" /\ exitCause \in {"completed", "abort", "error"}) =>
        session = "closed"

\* C16: a run opens the UI Session only at its start and only when the
\* resolved row-id list is not empty, and opens no other session later; when
\* the list is empty (empty table, or no row matches the filter) the run has
\* exited at once: no session, no pause, every row's Status and DoneAt as
\* they were.
SingleSessionEmptySet ==
    [][/\ (run' # run /\ exitCause' = "startup_error") => session' = "none"
       /\ (run' # run /\ exitCause' # "startup_error") =>
             IF ResolveRowIds(table', creator_filter, variant) = <<>>
             THEN LET before == IF working_exists THEN table ELSE source.rows
                  IN  /\ pc' = "exited"
                      /\ session' = "none"
                      /\ exitCause' = "empty"
                      /\ Len(table') = Len(before)
                      /\ \A i \in 1..Len(before) :
                            /\ table'[i].Status = before[i].Status
                            /\ table'[i].DoneAt = before[i].DoneAt
             ELSE /\ session' = "open"
                  /\ row_ids' # <<>>
       /\ (run' = run /\ session' # session) => session' \in {"closed", "lost"}]_vars

\* a run over a table none of whose rows matches the filter has exited
SingleSessionEmptySetWitness ==
    /\ exitCause = "empty"
    /\ pc = "exited"
    /\ Len(table) > 0
    /\ creator_filter # <<>>
    /\ session = "none"

\* C17: the per-row loop is entered only from a navigation confirmation that
\* succeeded; a confirmation is attempted only after the login pause or a
\* navigation pause was acknowledged, and a failed confirmation leads to a
\* mandatory pause and from there to the next attempt, never to the rows.
NavigationConfirmed ==
    [][/\ (loopEntered' /\ ~ loopEntered) => pc = "nav_confirm"
       /\ (pc = "nav_confirm" /\ pc' # pc) =>
             pc' \in {"row_read", "pause_nav", "exited"}
       /\ (pc' = "nav_confirm" /\ pc # pc') =>
             pc \in {"pause_login", "pause_nav"}]_vars

\* the resolved list holds each id once, in table order
InTableOrder(ids) ==
    \A j, k \in 1..Len(ids) : j < k => ids[j] < ids[k]

Selected(ids, id) == \E j \in 1..Len(ids) : ids[j] = id

\* C18 as stated: with a filter value f the resolved list is, in table
\* order, exactly the rows whose Creator equals f ignoring case; with no
\* filter it is every row in table order.
FilterAsStated ==
    (pc # "idle") =>
        IF creator_filter = <<>>
        THEN row_ids = [i \in 1..Len(table) |-> table[i].RowID]
        ELSE /\ InTableOrder(row_ids)
             /\ \A i \in 1..Len(table) :
                   Selected(row_ids, table[i].RowID) <=>
                       Lower(table[i].Creator) = Lower(creator_filter)

\* C18: with a filter value f the resolved list is, in table order, exactly
\* the rows whose Creator, surrounding whitespace removed, equals f ignoring
\* case; with no filter it is every row in table order.
FilterCorrectness ==
    (pc # "idle") =>
        IF creator_filter = <<>>
        THEN row_ids = [i \in 1..Len(table) |-> table[i].RowID]
        ELSE /\ InTableOrder(row_ids)
             /\ \A i \in 1..Len(table) :
                   Selected(row_ids, table[i].RowID) <=>
                       Lower(Strip(table[i].Creator)) = Lower(creator_filter)

\* Creator values A, b, A and filter a: the first and the third row
FilterCorrectnessWitness ==
    /\ pc # "idle"
    /\ creator_filter = <<"a">>
    /\ Len(table) = 3
    /\ table[1].Creator = <<"A">>
    /\ table[2].Creator = <<"b">>
    /\ table[3].Creator = <<"A">>
    /\ row_ids = <<0, 2>>

\* role_index as main.py 316-317 computes it from the role text
RoleRank(role) == role_to_index(normalize_role(role))

\* C19 as stated: no UI step of main.py runs with role index 0; an
\* iteration over a row whose role has rank 0 ends at the validation pause
\* with the status "Pending - unknown role: <text>".
UnknownRoleAsStated ==
    /\ (variant = "main" /\ pc \in UiPcs) => role_index >= 1
    /\ (variant = "main" /\ pc \in RowPcs \ {"row_read"} /\ RoleRank(cur.Role) = 0) =>
          /\ pc \in {"val_write", "pause_val"}
          /\ (pc = "pause_val" /\ HasRow(table, rid)) =>
                CurStatus = <<"Pending - unknown role: ", cur.Role>>

\* C19: no UI step of main.py runs with role index 0; an iteration over a
\* row whose role has rank 0 ends at the validation pause, and when the
\* username, email and required-fields checks (which run first) pass, with
\* the status "Pending - unknown role: <text>".
UnknownRoleSafety ==
    /\ (variant = "main" /\ pc \in UiPcs) => role_index >= 1
    /\ (variant = "main" /\ pc \in RowPcs \ {"row_read"} /\ RoleRank(cur.Role) = 0) =>
          /\ pc \in {"val_write", "pause_val"}
          /\ (/\ pc = "pause_val"
              /\ HasRow(table, rid)
              /\ validate_username(cur.User)
              /\ validate_email(cur.Email)
              /\ cur.Name # <<>>
              /\ cur.Last # <<>>) =>
                CurStatus = <<"Pending - unknown role: ", cur.Role>>

\* the pause after a row with the role text "x" was rejected
UnknownRoleSafetyWitness ==
    /\ variant = "main"
    /\ pc = "pause_val"
    /\ cur.Role = <<"x">>
    /\ RoleRank(cur.Role) = 0
    /\ HasRow(table, rid)
    /\ CurStatus = <<"Pending - unknown role: ", <<"x">>>>

TicketAgentText == <<"T","i","c","k","e","t"," ","A","g","e","n","t">>

CanonicalOfTicketAgent == normalize_role(TicketAgentText)

CanonicalOfTicketingAgent == normalize_role(RoleTicketing)

RankOfTicketAgent == role_to_index(CanonicalOfTicketAgent)

\* C20: "Ticket Agent" and "ticketing agent" normalise to the same canonical
\* role, whose rank is the position of "ticketing agent" in the ordered role
\* list (3); in the UI phase of a row with such a role, the index of the role
\* option the state machine selects is that rank.
RoleMapping ==
    /\ CanonicalOfTicketAgent = CanonicalOfTicketingAgent
    /\ RankOfTicketAgent = 3
    /\ ROLE_ORDER[RankOfTicketAgent] = RoleTicketing
    /\ (variant = "main" /\ pc \in UiPcs) =>
          (Lower(cur.Role) \in {RoleTicket, RoleTicketing} => role_index = RankOfTicketAgent)

\* the role option of a "Ticket Agent" row is about to be clicked
RoleMappingWitness ==
    /\ variant = "main"
    /\ pc = "ui_select"
    /\ cur.Role = TicketAgentText
    /\ role_index = 3

\* the forbidden set as the claim describes it: whitespace and : ; / ' " \ | , < > ? *
ForbiddenAsStated ==
    Whitespace \cup {":", ";", "/", "'", "\"", "\\", "|", ",", "<", ">", "?", "*"}

\* C21: the identity check accepts a string exactly when it is not empty and
\* holds no character of the forbidden set (whitespace and the
\* metacharacters), leading and trailing whitespace included.
IdentityValidation ==
    (pc = "exited") =>
        ((newStatus = Valid) <=>
            /\ cur.User # <<>>
            /\ \A i \in 1..Len(cur.User) : cur.User[i] \notin ForbiddenAsStated)

RowIdsOf(t) == [i \in 1..Len(t) |-> t[i].RowID]

\* C22: RowIDs are assigned only by the step that adds the RowID column, as
\* 0, 1, 2, ... in table order; once the column exists, every step leaves
\* the RowID of every row that stays in the table as it was (rows only
\* disappear, or appear without an id, by the operator's hand), in later
\* runs too.
StableRowIdentity ==
    [][/\ (~ hasRowID /\ hasRowID') =>
             /\ Len(table') = Len(IF working_exists THEN table ELSE source.rows)
             /\ \A i \in 1..Len(table') : table'[i].RowID = i - 1
       /\ hasRowID =>
             /\ hasRowID'
             /\ \/ RowIdsOf(table') = RowIdsOf(table)
                \/ RowIdsOf(table') = Append(RowIdsOf(table), NoId)
                \/ \E k \in 1..Len(table) :
                      RowIdsOf(table') = RemoveAt(RowIdsOf(table), k)]_vars

\* a later run works on a table whose first row the operator removed: the
\* remaining row still has the id it was given
StableRowIdentityWitness ==
    /\ run = 2
    /\ pc \in RowPcs
    /\ Len(table) = 1
    /\ table[1].RowID = 1

-----------------------------------------------------------------------------
\* C23: no step writes the source file; a start-up copies the source only
\* when no working copy exists, and then the working table holds the source's
\* rows; when a working copy exists the start-up leaves it in place with every
\* row, status and completion time as it was.
SourceImmutableIdempotentCopy ==
    [][/\ source' = source
       /\ (working_exists => working_exists')
       /\ (run' # run /\ working_exists) => table' = table
       /\ (run' # run /\ ~ working_exists /\ working_exists') =>
             /\ Len(table') = Len(source.rows)
             /\ \A i \in 1..Len(table') :
                   /\ FieldsOf(table'[i]) = FieldsOf(source.rows[i])
                   /\ table'[i].Status = St("")
                   /\ table'[i].DoneAt = 0]_vars

SourceImmutableIdempotentCopyWitness ==
    /\ run = 2
    /\ pc = "pause_login"
    /\ working_exists
    /\ Len(table) = Len(source.rows)
    /\ \E i \in 1..Len(table) :
          /\ IsDone(table[i].Status)
          /\ source.rows[i].Status = St("")

-----------------------------------------------------------------------------
\* C24: a table write made while row rid is processed keeps the number of
\* rows, leaves every other row as it was, and on row rid keeps the RowID and
\* the data fields; it changes DoneAt only together with setting Status to
\* Done.
WritePcs == {"val_write", "fail_write", "done_write", "exc_write"}

RowIsolation ==
    [][(pc \in WritePcs) =>
          /\ Len(table') = Len(table)
          /\ \A i \in 1..Len(table) :
                IF table[i].RowID # rid
                THEN table'[i] = table[i]
                ELSE /\ table'[i].RowID = table[i].RowID
                     /\ FieldsOf(table'[i]) = FieldsOf(table[i])
                     /\ (table'[i].DoneAt # table[i].DoneAt =>
                            /\ pc = "done_write"
                            /\ table'[i].Status = St("Done"))]_vars

RowIsolationWitness ==
    /\ pc = "pause_done"
    /\ Len(table) = 2
    /\ rid = table[2].RowID
    /\ doneWrites = 1
    /\ table[1].Status = St("Done")
    /\ table[2].Status = St("Done")
    /\ table[1].DoneAt # table[2].DoneAt

-----------------------------------------------------------------------------
\* C25: a step changes a row's DoneAt only when it also stores the status
\* Done for that row, and only when the row's DoneAt was still empty (so a
\* row's completion time is written at most once over all runs).
CompletionTimestampOnce ==
    [][\A i \in 1..Len(table) :
          LET id == table[i].RowID
          IN  (HasRow(table', id) /\ RowOf(table', id).DoneAt # table[i].DoneAt) =>
                  /\ RowOf(table', id).Status = St("Done")
                  /\ table[i].DoneAt = 0]_vars

-----------------------------------------------------------------------------
\* C26: the Run Log only grows: no step removes the events of an earlier
\* run, every process start that reaches the logging set-up appends its
\* "New run started" event to the events already there, and the events and
\* pauses logged within a run leave the earlier runs' events in place.
RunLogAppendOnly ==
    [][/\ log_runs' >= log_runs
       /\ (run' # run /\ source.exists) => log_runs' = log_runs + 1
       /\ (run' = run) => log_runs' = log_runs]_vars

RunLogAppendOnlyWitness ==
    /\ run = 2
    /\ log_runs = 3
    /\ pc = "pause_done"
    /\ log_tail = "flushed_pause"

-----------------------------------------------------------------------------
\* C27: a start-up that finds no source file ends the run at once: no working
\* copy is created, the table and the Run Log are as before, no UI Session
\* is opened and no pause is emitted; a start-up of the contact-update
\* variant that finds a required column missing ends the run without a UI
\* Session, without a pause and without entering the row loop.
StartupErrorsFatal ==
    [][(run' # run) =>
          /\ (~ source.exists) =>
                /\ pc' = "exited"
                /\ exitCause' = "startup_error"
                /\ working_exists' = working_exists
                /\ table' = table
                /\ session' = "none"
                /\ log_runs' = log_runs
                /\ log_tail' = log_tail
                /\ ~ loopEntered'
          /\ (source.exists /\ variant = "main1" /\ ~ source.cols) =>
                /\ pc' = "exited"
                /\ exitCause' = "startup_error"
                /\ session' = "none"
                /\ log_tail' # "flushed_pause"
                /\ ~ loopEntered']_vars

StartupErrorsFatalWitness ==
    /\ run = 2
    /\ pc = "exited"
    /\ exitCause = "startup_error"
    /\ variant = "main1"
    /\ ~ source.cols
    /\ working_exists
    /\ session = "none"

-----------------------------------------------------------------------------
\* C28: a row's status becomes Done only by the write that follows a
\* post-submit wait that succeeded, the wait being entered only from the
\* click on Save; a wait that times out leads to the write of
\* "Pending - save modal open", never to the Done write, and when that write
\* is done the row has this status at a mandatory pause, from which the same
\* row is read again.
SaveModalOpen == St("Pending - save modal open")

DoneOnlyOnConfirmedSuccess ==
    [][/\ \A i \in 1..Len(table) :
             LET id == table[i].RowID
             IN  (/\ HasRow(table', id)
                  /\ ~ IsDone(table[i].Status)
                  /\ IsDone(RowOf(table', id).Status)) =>
                     /\ pc = "done_write"
                     /\ id = rid
       /\ (pc' = "done_write" /\ pc # "done_write") =>
             /\ pc = "ui_wait"
             /\ submits'[rid] = submits[rid] + 1
       /\ (pc' = "ui_wait" /\ pc # "ui_wait") => pc = "ui_save"
       /\ (pc = "ui_wait" /\ pc' \notin {"ui_wait", "done_write", "exited"}) =>
             /\ submits' = submits
             /\ table' = table
             /\ \/ pc' = "fail_write" /\ newStatus' = SaveModalOpen
                \/ pc' = "exc_write"
       /\ (pc = "fail_write" /\ newStatus = SaveModalOpen) =>
             /\ pc' \in {"fail_write", "pause_ui", "exc_write", "exited"}
             /\ (pc' = "pause_ui") =>
                   /\ idx' = idx
                   /\ user_pause(pc' \in MandatoryPauses)
                   /\ HasRow(table, rid) => RowOf(table', rid).Status = SaveModalOpen
       /\ (pc = "pause_ui" /\ pc' = "row_read") => idx' = idx]_vars

\* the attempt after a timed-out wait has succeeded, and Done is about to
\* replace the status the timeout left
DoneOnlyOnConfirmedSuccessWitness ==
    /\ pc = "done_write"
    /\ uiFails = 1
    /\ HasRow(table, rid)
    /\ CurStatus = SaveModalOpen
    /\ submits[rid] = 1

-----------------------------------------------------------------------------
\* C29: the status a failed validation chooses is that of the first failing
\* check in the order identity, e-mail, missing fields, role, and no UI
\* interaction is made in that iteration; the next step of the process
\* stores that status and reaches the mandatory pause, and after the pause
\* the same row is read again.
IdentityOk(f) ==
    IF variant = "main" THEN validate_username(f.User) ELSE validate_pcc(f.User)

NoneMissing(f) ==
    IF variant = "main"
    THEN f.User # <<>> /\ f.Name # <<>> /\ f.Last # <<>> /\ f.Email # <<>>
    ELSE f.User # <<>> /\ f.Email # <<>>

ValidationOrdering ==
    [][/\ (pc = "row_read" /\ pc' = "val_write") =>
             /\ uiRows' = uiRows
             /\ table' = table
             /\ \/ /\ newStatus' \in {St("Pending - invalid username"),
                                     St("Pending - invalid PCC")}
                   /\ ~ IdentityOk(cur')
                \/ /\ newStatus' = St("Pending - invalid email")
                   /\ IdentityOk(cur')
                   /\ ~ validate_email(cur'.Email)
                \/ /\ newStatus' = St("Pending - missing fields")
                   /\ IdentityOk(cur')
                   /\ validate_email(cur'.Email)
                   /\ ~ NoneMissing(cur')
                \/ /\ newStatus' = <<"Pending - unknown role: ", cur'.Role>>
                   /\ variant = "main"
                   /\ IdentityOk(cur')
                   /\ validate_email(cur'.Email)
                   /\ NoneMissing(cur')
       /\ (pc = "val_write" /\ pc' # "val_write" /\ exitCause' # "killed") =>
             /\ pc' = "pause_val"
             /\ user_pause(pc' \in MandatoryPauses)
             /\ uiRows' = uiRows
             /\ RowOf(table', rid).Status = newStatus
             /\ idx' = idx
       /\ (pc = "pause_val" /\ pc' \notin {"pause_val", "exited", "pause_final"}) =>
             /\ pc' = "row_read"
             /\ idx' = idx]_vars

-----------------------------------------------------------------------------
\* C30 as stated: within an attempt the UI steps follow one another in the
\* order detect-or-open, fill, select role, click Save, wait; Save is
\* reached only from a role selection that succeeded, the role selection only
\* from a fill that succeeded; a step that fails leaves the UI phase.
UiEntryOrder ==
    /\ (pc \notin UiPcs /\ pc' \in UiPcs) =>
          /\ pc = "row_read"
          /\ pc' = IF variant = "main" THEN "ui_detect" ELSE "ui_nav"
    /\ (pc \in UiPcs /\ pc' \notin UiPcs) =>
          pc' \in {"pause_ui", "fail_write", "exc_write", "done_write", "exited"}
    /\ (pc \in UiPcs /\ uiFails' # uiFails) => pc' \notin UiPcs
    /\ (pc' = "ui_wait" /\ pc # "ui_wait") => pc = "ui_save"
    /\ (pc' = "done_write" /\ pc # "done_write") => pc = "ui_wait"

UiPhaseOrderingAsStated ==
    [][/\ UiEntryOrder
       /\ (pc' = "ui_save" /\ pc # "ui_save") => pc = "ui_select"
       /\ (pc' = "ui_select" /\ pc # "ui_select") => pc = "ui_fill"
       /\ (pc' = "ui_fill" /\ pc # "ui_fill") =>
             pc \in {"ui_detect", "ui_open", "ui_modal"}]_vars

\* C30: in the user-creation variant the order is detect-or-open, fill,
\* select role, click Save, wait; in the contact-update variant it is
\* navigate, open edit, wait for the edit surface, fill, click Save, wait,
\* with no role selection. Each step is reached only from the success of the
\* step before it in the same attempt, and a step that fails leaves the UI
\* phase.
UiPhaseOrdering ==
    [][/\ UiEntryOrder
       /\ (pc' = "ui_save" /\ pc # "ui_save") =>
             pc = IF variant = "main" THEN "ui_select" ELSE "ui_fill"
       /\ (pc' = "ui_select" /\ pc # "ui_select") =>
             /\ variant = "main"
             /\ pc = "ui_fill"
       /\ (pc' = "ui_fill" /\ pc # "ui_fill") =>
             IF variant = "main" THEN pc \in {"ui_detect", "ui_open"}
             ELSE pc = "ui_modal"
       /\ (pc' = "ui_open" /\ pc # "ui_open") => pc = "ui_detect"
       /\ (pc' = "ui_modal" /\ pc # "ui_modal") => pc = "ui_edit"
       /\ (pc' = "ui_edit" /\ pc # "ui_edit") => pc = "ui_nav"]_vars

\* the contact-update variant waits for the surface to close in the attempt
\* that follows a failed one
UiPhaseOrderingWitness ==
    /\ variant = "main1"
    /\ pc = "ui_wait"
    /\ uiFails = 1
    /\ rid \in uiRows

-----------------------------------------------------------------------------
\* C31: in the user-creation variant the Add User action is clicked only
\* when the surface was not detected; the fill works on a surface that is
\* open (found open, or just opened), and after the fill the fields hold
\* exactly the text typed by this attempt, whatever an earlier attempt left
\* in them.
DetectOrOpen ==
    (variant = "main") =>
        /\ (pc = "ui_open") => surface = "closed"
        /\ (pc = "ui_fill") => surface \in {"empty", "stale"}
        /\ (pc \in {"ui_select", "ui_save", "ui_wait"}) => surface = "typed"

-----------------------------------------------------------------------------
\* C32: the table a validation write is about to save is the store as it
\* was loaded (no pause lies between the load and the write), and every
\* write of the row loop that succeeds saves the store's current rows with only the
\* current row's Status and DoneAt changed, so that every data cell the
\* operator edited during a pause is in the table after the write; what the
\* process holds in memory after a write is what it saved.
NoLostOperatorEdits ==
    [][/\ (pc' = "val_write") => df_all' = table'
       /\ (pc \in WritePcs /\ pc' \in PausePcs \ {"pause_final"}) =>
             /\ df_all' = table'
             /\ Len(table') = Len(table)
             /\ \A i \in 1..Len(table) :
                   /\ FieldsOf(table'[i]) = FieldsOf(table[i])
                   /\ table'[i].RowID = table[i].RowID
                   /\ (table[i].RowID # rid) => table'[i] = table[i]]_vars

\* the operator edited the row at the "Row done" pause; the handler's write
\* that followed the end-of-input kept the edit
NoLostOperatorEditsWitness ==
    /\ pc = "pause_exc"
    /\ edits = 1
    /\ doneWrites = 1
    /\ HasRow(table, rid)
    /\ FieldsOf(RowOf(table, rid)) = FNoAt
    /\ CurStatus = <<"Error - ", <<"EOFError">>>>

-----------------------------------------------------------------------------
\* C33: the list of row ids is resolved by the start-up step, which is also
\* the step that opens the UI Session, and stays as it is while the process
\* lives, whatever the operator does to the table; the position in the list
\* moves forward one row at a time and the loop is completed only past the
\* last one; a UI interaction is always for the row at the current position.
RowSetFixedSequential ==
    [][/\ (run' # run /\ session' = "open") =>
             row_ids' = ResolveRowIds(table', creator_filter, variant)
       /\ (run' = run /\ pc' # "exited") => row_ids' = row_ids
       /\ (run' = run /\ idx' # idx /\ pc' = "row_read") =>
             /\ idx' = idx + 1
             /\ pc \in {"pause_login", "nav_confirm", "pause_nav", "row_read",
                         "pause_done"}
       /\ (pc # "pause_final" /\ pc' = "pause_final" /\ exitCause' = "completed") =>
             idx = Len(row_ids)
       /\ (run' = run /\ uiRows' # uiRows /\ pc' # "exited") =>
             /\ idx' = idx
             /\ uiRows' = uiRows \cup {row_ids[idx]}]_vars

\* the run has completed its list; the row the operator added during a
\* pause was not processed
RowSetFixedSequentialWitness ==
    /\ run = 1
    /\ pc = "pause_final"
    /\ exitCause = "completed"
    /\ edits = 1
    /\ Len(table) = 2
    /\ table[1].Status = St("Done")
    /\ table[2].RowID = NoId
    /\ table[2].Status = St("")

\* every resolved row that is still in the table has status Done
AllResolvedDone ==
    \A j \in 1..Len(row_ids) :
        HasRow(table, row_ids[j]) => IsDone(RowOf(table, row_ids[j]).Status)

\* C34: with no abort signal, every pause acknowledged and validation
\* failing only finitely often (UI steps fail finitely often in every run of
\* the model), a run that entered the row loop eventually reaches the final
\* pause with every resolved row still present at Done, and from the final
\* pause it eventually closes the UI Session and terminates.
BatchCompletion ==
    <>[](pc # "pause_val") =>
        /\ [](loopEntered => <>(pc = "pause_final" /\ AllResolvedDone))
        /\ [](pc = "pause_final" => <>(pc = "exited" /\ session = "closed"))

\* C35: every table the process saves has, on each row, a non-empty DoneAt
\* exactly when the status is Done, and a save changes the DoneAt of a row
\* exactly when it changes whether the row's status is Done.
StatusTimestampConsistency ==
    [][(pc \in WritePcs /\ table' # table) =>
          \A i \in 1..Len(table') :
              /\ (table'[i].DoneAt # 0) <=> IsDone(table'[i].Status)
              /\ (table'[i].DoneAt # table[i].DoneAt) <=>
                     (IsDone(table'[i].Status) # IsDone(table[i].Status))]_vars

\* C36: in the contact-update variant, whenever the PCC check and the
\* e-mail check both pass, the stripped PCC and e-mail are non-empty, so the
\* outcome of the validations is never "Pending - missing fields".
MissingFieldsUnreachable ==
    (variant = "main1" /\ pc = "exited") =>
        /\ (validate_pcc(cur.User) /\ validate_email(cur.Email)) =>
               (cur.User # <<>> /\ cur.Email # <<>>)
        /\ newStatus # St("Pending - missing fields")

MissingFieldsUnreachableWitness ==
    /\ variant = "main1"
    /\ pc = "exited"
    /\ cur.User = <<"a">>
    /\ cur.Email = FGood.Email
    /\ newStatus = Valid

====
